---- MODULE Spec2Model ----
(***************************************************************************)
(* Model of FISH_segmentation/Application_Qt/ChromosomePatch.py:           *)
(* the Cell registry of a ChromosomeCellDetector (find_cells), the         *)
(* assignment of chromosome candidates to cells (detect_chromosomes,       *)
(* __filter_chromosomes), and the pure helpers __unsharp_mask and          *)
(* rgba2rgb.                                                               *)
(*                                                                         *)
(* Units.  Pixel indices are integers.  Candidate points are centres of    *)
(* mass, so they are kept in HALF pixels: the point <<10, 4>> is           *)
(* (row 5.0, col 2.0).  A signed distance is kept as its sign and its      *)
(* square (in half pixels squared), which makes every comparison the code  *)
(* performs exact.                                                         *)
(***************************************************************************)
EXTENDS Integers, Sequences, FiniteSets, TLC

VARIABLES
    detectors,        \* instance -> [image, cells]  (self.image, self.cells)
    RedChromosome,    \* ChromosomeCellDetector.RedChromosome   (class level)
    GreenChromosome,  \* ChromosomeCellDetector.GreenChromosome (class level)
    detect_calls,     \* instance -> passes over the registry since it was rebuilt
    last              \* the call that ended last: its name, arguments, outcome

vars == <<detectors, RedChromosome, GreenChromosome, detect_calls, last>>

(***************************************************************************)
(* Bounds of the model.                                                    *)
(***************************************************************************)
MaxCells == 2     \* detections the oracle holds for one image
MaxCand == 2      \* candidates of one channel
MaxDetect == 2    \* detect_chromosomes calls on one registry

Min2(a, b) == IF a < b THEN a ELSE b
Max2(a, b) == IF a > b THEN a ELSE b
SeqsUpTo(S, n) == UNION {[1..k -> S] : k \in 0..n}
Instances == {"d1", "d2"}

(***************************************************************************)
(* Cell                                                                    *)
(***************************************************************************)
EXPLODED == 0
WHOLE == 1

\* Cell.CellType(int(cls))
CellType(cls) == IF cls = 0 THEN EXPLODED ELSE WHOLE

\* Cell.__init__
Cell(masked_area, cell_type) ==
    [masked_area |-> masked_area, cell_type |-> cell_type,
     red_chromosomes |-> <<>>, green_chromosomes |-> <<>>]

\* Cell.add_red_chromosome
add_red_chromosome(cell, red_chromosome) ==
    [cell EXCEPT !.red_chromosomes = Append(@, red_chromosome)]

\* Cell.add_green_chromosome
add_green_chromosome(cell, green_chromosome) ==
    [cell EXCEPT !.green_chromosomes = Append(@, green_chromosome)]

(***************************************************************************)
(* The segmentation oracle (CELLS_DETECTOR.predict) and its masks.         *)
(* A mask is [rows, cols, fg]: its shape and the set of <<row, col>> pixels *)
(* whose value is > 0.  The masks of the model are filled rectangles (or   *)
(* empty) at the oracle's native resolution.                               *)
(***************************************************************************)
MaskA == [rows |-> 4, cols |-> 4, fg |-> (1..3) \X (0..2)]
MaskB == [rows |-> 4, cols |-> 4, fg |-> (0..3) \X (2..3)]
MaskEmpty == [rows |-> 4, cols |-> 4, fg |-> {}]

\* What the oracle sees in an image: mask, class id, confidence (in tenths).
Detections ==
    { [mask |-> MaskA, cls |-> 1, conf |-> 9],
      [mask |-> MaskB, cls |-> 0, conf |-> 3],
      [mask |-> MaskEmpty, cls |-> 0, conf |-> 9] }

\* confidence arguments of find_cells, in tenths (0.5 is the default)
Confidences == {5, 2}

\* CELLS_DETECTOR.predict(image, classes=[0, 1], conf=confidence): one Results
\* object for the one image.  Its masks attribute is None when no detection
\* passes the confidence threshold (ultralytics Results.masks), and boxes.cls
\* is then empty.
Predict(image, confidence) ==
    LET kept == SelectSeq(image.detections, LAMBDA d : d.conf > confidence)
    IN  [masks_none |-> kept = <<>>,
         masks |-> [k \in 1..Len(kept) |-> kept[k].mask],
         cls |-> [k \in 1..Len(kept) |-> kept[k].cls]]

\* CELLS_DETECTOR.names, the class names stored in the model weights
names == [c \in {0, 1} |-> IF c = 0 THEN "Explode cell" ELSE "Whole cell"]

(***************************************************************************)
(* cv2.resize(mask, dsize, interpolation=cv2.INTER_LINEAR)                 *)
(***************************************************************************)
\* The source indices that enter destination index i with a weight > 0:
\* fx = (i + 0.5) * ssize / dsize - 0.5, sx = floor(fx), the weights are
\* 1 - (fx - sx) on sx and fx - sx on sx + 1, clamped at both ends.
Taps(i, ssize, dsize) ==
    LET n == (2 * i + 1) * ssize - dsize
        sx == n \div (2 * dsize)
        frac == n % (2 * dsize)
    IN  IF sx < 0 THEN {0}
        ELSE IF sx >= ssize - 1 THEN {ssize - 1}
        ELSE IF frac = 0 THEN {sx} ELSE {sx, sx + 1}

\* dsize is (width, height): the result has dsize[2] rows and dsize[1]
\* columns.  A pixel of the result is > 0 iff a tap of it is > 0 (line 91).
Resize(mask, dsize) ==
    [rows |-> dsize[2], cols |-> dsize[1],
     fg |-> { q \in (0..(dsize[2] - 1)) \X (0..(dsize[1] - 1)) :
                \E p \in mask.fg :
                    /\ p[1] \in Taps(q[1], mask.rows, dsize[2])
                    /\ p[2] \in Taps(q[2], mask.cols, dsize[1]) }]

\* np.ma.masked_where(np.invert(mask3d), self.image) raises IndexError when
\* the condition and the image differ in shape.
MaskedWhereRaises(mask, image) ==
    <<mask.rows, mask.cols>> # image.shape

(***************************************************************************)
(* find_cells                                                              *)
(***************************************************************************)
\* the loop of lines 89-106, from instance k on
RECURSIVE BuildCells(_, _, _, _)
BuildCells(image, prediction, k, cells) ==
    IF k > Len(prediction.cls) THEN [cells |-> cells, raised |-> "none"]
    ELSE LET mask == Resize(prediction.masks[k], image.shape)
         IN  IF MaskedWhereRaises(mask, image)
             THEN [cells |-> cells, raised |-> "IndexError"]
             ELSE BuildCells(image, prediction, k + 1,
                      Append(cells, Cell(mask, CellType(prediction.cls[k]))))

\* lines 85-106: prediction.masks.data fails on None
RebuildRegistry(image, prediction) ==
    IF prediction.masks_none
    THEN [cells |-> <<>>, raised |-> "AttributeError"]
    ELSE BuildCells(image, prediction, 1, <<>>)

\* the boxes counted under the other class name
CountNamesOther(prediction, name) ==
    Cardinality({k \in 1..Len(prediction.cls) : names[prediction.cls[k]] # name})

\* lines 109-116: the boxes whose class name is name
CountNames(prediction, name) ==
    Cardinality({k \in 1..Len(prediction.cls) : names[prediction.cls[k]] = name})

FindCells(d, confidence) ==
    LET image == detectors[d].image
        prediction == Predict(image, confidence)
        built == RebuildRegistry(image, prediction)
    IN  /\ detectors' = [detectors EXCEPT ![d].cells = built.cells]
        /\ detect_calls' = [detect_calls EXCEPT ![d] = 0]
        /\ last' = [op |-> "find_cells", det |-> d, confidence |-> confidence,
                    raised |-> built.raised,
                    ret |-> IF built.raised = "none"
                            THEN <<CountNames(prediction, "Explode cell"),
                                   CountNames(prediction, "Whole cell")>>
                            ELSE <<>>]
        /\ UNCHANGED <<RedChromosome, GreenChromosome>>

(***************************************************************************)
(* __filter_chromosomes                                                    *)
(***************************************************************************)
\* mask = np.invert(cell.masked_area.mask[..., 0]): the cell's pixels
CellMask(cell) == cell.masked_area.fg

\* cv2.findContours(mask, RETR_TREE, CHAIN_APPROX_NONE) finds no contour in a
\* mask without a pixel, and grab_contours(...)[0] then raises IndexError.
NoContour(cell) == CellMask(cell) = {}

\* The first contour of a filled rectangle: the polygon through its border
\* pixels, given by its extreme x (column) and y (row) coordinates.
Contour(cell) ==
    LET fg == CellMask(cell)
    IN  [x0 |-> CHOOSE c \in {p[2] : p \in fg} : \A p \in fg : c <= p[2],
         x1 |-> CHOOSE c \in {p[2] : p \in fg} : \A p \in fg : c >= p[2],
         y0 |-> CHOOSE r \in {p[1] : p \in fg} : \A p \in fg : r <= p[1],
         y1 |-> CHOOSE r \in {p[1] : p \in fg} : \A p \in fg : r >= p[1]]

\* cv2.pointPolygonTest(contour, pt, measureDist=True) for pt = (x, y) in half
\* pixels: positive inside, zero on the polygon, negative outside.
PointPolygonTest(contour, pt) ==
    LET x == pt[1]
        y == pt[2]
        X0 == 2 * contour.x0
        X1 == 2 * contour.x1
        Y0 == 2 * contour.y0
        Y1 == 2 * contour.y1
        dIn == Min2(Min2(x - X0, X1 - x), Min2(y - Y0, Y1 - y))
        dx == Max2(Max2(X0 - x, x - X1), 0)
        dy == Max2(Max2(Y0 - y, y - Y1), 0)
    IN  IF x > X0 /\ x < X1 /\ y > Y0 /\ y < Y1
        THEN [sign |-> 1, sq |-> dIn * dIn]
        ELSE IF dx = 0 /\ dy = 0
        THEN [sign |-> 0, sq |-> 0]
        ELSE [sign |-> -1, sq |-> dx * dx + dy * dy]

\* distance > c, for a number c of half pixels
DistGT(distance, c) ==
    IF c >= 0 THEN distance.sign = 1 /\ distance.sq > c * c
    ELSE distance.sign >= 0 \/ distance.sq < c * c

\* candidate[::-1]: (row, col) becomes (x, y)
Reversed(candidate) == <<candidate[2], candidate[1]>>

\* line 161
Distance(cell, candidate) ==
    PointPolygonTest(Contour(cell), Reversed(candidate))

\* line 162: inside_cell = distance > 0.0
InsideCell(distance) == DistGT(distance, 0)

\* distance < closeness instead of distance <= closeness
AlmostOnCellBorderStrict(distance, closeness) ==
    IF distance.sign = 1 THEN distance.sq < closeness * closeness
    ELSE distance.sign = 0 => closeness > 0

\* line 163: almost_on_cell_border = distance <= closeness
AlmostOnCellBorder(distance, closeness) == ~DistGT(distance, closeness)

\* lines 166-172: the candidate idx is accepted by the cell j
Accept(st, idx, j, candidate, chromosome_type) ==
    IF chromosome_type = "red"
    THEN [st EXCEPT !.accepted[idx] = TRUE,
                    !.cells[j] = add_red_chromosome(@, candidate),
                    !.Red = @ + 1]
    ELSE IF chromosome_type = "green"
    THEN [st EXCEPT !.accepted[idx] = TRUE,
                    !.cells[j] = add_green_chromosome(@, candidate),
                    !.Green = @ + 1]
    ELSE [st EXCEPT !.accepted[idx] = TRUE]

RECURSIVE FilterLoopNoBreak(_, _, _, _, _, _)
\* the loops without the accepted flag and the break
FilterLoopNoBreak(st, candidates, chromosome_type, closeness, idx, j) ==
    IF idx > Len(candidates) THEN st
    ELSE IF j > Len(st.cells)
    THEN FilterLoopNoBreak(st, candidates, chromosome_type, closeness, idx + 1, 1)
    ELSE IF NoContour(st.cells[j]) THEN [st EXCEPT !.raised = "IndexError"]
    ELSE LET distance == Distance(st.cells[j], candidates[idx])
         IN  IF InsideCell(distance) /\ ~AlmostOnCellBorder(distance, closeness)
             THEN FilterLoopNoBreak(
                      Accept(st, idx, j, candidates[idx], chromosome_type),
                      candidates, chromosome_type, closeness, idx, j + 1)
             ELSE FilterLoopNoBreak(st, candidates, chromosome_type, closeness,
                                    idx, j + 1)

RECURSIVE FilterLoop(_, _, _, _, _, _)
\* The loops of lines 153-173, at candidate idx and cell j.  st holds the
\* registry, both counters, the accepted flags and the exception raised.
FilterLoop(st, candidates, chromosome_type, closeness, idx, j) ==
    IF idx > Len(candidates) THEN st
    ELSE IF j > Len(st.cells)
    THEN FilterLoop(st, candidates, chromosome_type, closeness, idx + 1, 1)
    ELSE IF NoContour(st.cells[j]) THEN [st EXCEPT !.raised = "IndexError"]
    ELSE LET distance == Distance(st.cells[j], candidates[idx])
             inside_cell == InsideCell(distance)
             almost_on_cell_border == AlmostOnCellBorder(distance, closeness)
         IN  IF ~st.accepted[idx] /\ inside_cell /\ ~almost_on_cell_border
             THEN FilterLoop(Accept(st, idx, j, candidates[idx], chromosome_type),
                             candidates, chromosome_type, closeness, idx + 1, 1)
             ELSE FilterLoop(st, candidates, chromosome_type, closeness, idx, j + 1)

\* __filter_chromosomes on the registry and counters in st
FilterChromosomes(st, chromosome_candidates, chromosome_type, closeness) ==
    LET accepted == [idx \in 1..Len(chromosome_candidates) |-> FALSE]
        out == FilterLoop([cells |-> st.cells, Red |-> st.Red, Green |-> st.Green,
                           accepted |-> accepted, raised |-> "none"],
                          chromosome_candidates, chromosome_type, closeness, 1, 1)
    IN  [cells |-> out.cells, Red |-> out.Red, Green |-> out.Green,
         raised |-> out.raised]

(***************************************************************************)
(* detect_chromosomes                                                      *)
(***************************************************************************)
\* closeness = 1.0, in half pixels
Closeness == 2

\* __get_chromosome_candidates(channel of __unsharp_mask(self.image)): the
\* image enters the assignment only through the centroids extracted from
\* its red and green channels, which the image record carries.
RedCandidates(image) == image.red
GreenCandidates(image) == image.green

DetectChromosomes(d) ==
    /\ detect_calls[d] < MaxDetect
    /\ LET image == detectors[d].image
           reset == [cells |-> detectors[d].cells, Red |-> 0, Green |-> 0,
                     raised |-> "none"]
           red == FilterChromosomes(reset, RedCandidates(image), "red", Closeness)
           green == IF red.raised = "none"
                    THEN FilterChromosomes(red, GreenCandidates(image), "green",
                                           Closeness)
                    ELSE red
       IN  /\ detectors' = [detectors EXCEPT ![d].cells = green.cells]
           /\ RedChromosome' = green.Red
           /\ GreenChromosome' = green.Green
           /\ detect_calls' = [detect_calls EXCEPT ![d] = @ + 1]
           /\ last' = [op |-> "detect_chromosomes", det |-> d,
                       raised |-> green.raised]

(***************************************************************************)
(* The detectors of the model and their images.  An image is its shape     *)
(* (H, W), what the oracle detects in it and the candidates extracted from *)
(* its channels.                                                           *)
(***************************************************************************)
P1 == <<10, 4>>    \* (5.0, 2.0): 2.0 inside MaskA's cell only
P2 == <<8, 10>>    \* (4.0, 5.0): 1.0 inside MaskA's cell, 2.0 inside MaskB's
P3 == <<8, 9>>     \* (4.0, 4.5): 1.5 inside both cells
P4 == <<8, 12>>    \* (4.0, 6.0): on the border of MaskA's cell, 1.0 inside MaskB's
P5 == <<1, 2>>     \* (0.5, 1.0): outside both cells

Points == {P1, P2, P3, P4, P5}

\* what __get_chromosome_candidates returns for a channel of the images
CandidateLists == {<<>>, <<P3, P1>>}

Shapes == {<<8, 8>>, <<8, 4>>}

Images ==
    [shape : Shapes,
     detections : SeqsUpTo(Detections, MaxCells),
     red : CandidateLists,
     green : CandidateLists]

OtherImage ==
    [shape |-> <<8, 8>>,
     detections |-> << [mask |-> MaskA, cls |-> 1, conf |-> 9] >>,
     red |-> <<P1>>, green |-> <<>>]

\* ChromosomeCellDetector.__init__
NewDetector(image) == [image |-> image, cells |-> <<>>]

Init ==
    /\ \E image \in Images :
           detectors = [d \in Instances |->
                           IF d = "d1" THEN NewDetector(image)
                           ELSE NewDetector(OtherImage)]
    /\ RedChromosome = 0
    /\ GreenChromosome = 0
    /\ detect_calls = [d \in Instances |-> 0]
    /\ last = [op |-> "init"]

Next ==
    \/ \E d \in Instances, confidence \in Confidences : FindCells(d, confidence)
    \/ \E d \in Instances : DetectChromosomes(d)

Spec == Init /\ [][Next]_vars

(***************************************************************************)
(* __filter_chromosomes as a function of its arguments: one pass over a    *)
(* freshly built registry, for every candidate list, both channel roles    *)
(* and several closeness values (in half pixels: 0, 0.5, 1.0 and 1.5).     *)
(***************************************************************************)
Closenesses == {0, 1, 2, 3}

FilterImages ==
    [shape : {<<8, 8>>},
     detections : SeqsUpTo(Detections, MaxCells),
     red : {<<>>}, green : {<<>>}]

\* the registry find_cells builds for the image at the lowest confidence
RegistryOf(image) == RebuildRegistry(image, Predict(image, 2)).cells

InitFilter ==
    /\ \E image \in FilterImages :
           detectors = [d \in Instances |->
                           IF d = "d1"
                           THEN [image |-> image, cells |-> RegistryOf(image)]
                           ELSE NewDetector(OtherImage)]
    /\ \E closeness \in Closenesses :
           last = [op |-> "init", closeness |-> closeness]
    /\ RedChromosome = 0
    /\ GreenChromosome = 0
    /\ detect_calls = [d \in Instances |-> 0]

FilterCall(d, chromosome_candidates, chromosome_type) ==
    /\ LET out == FilterChromosomes(
                      [cells |-> detectors[d].cells, Red |-> RedChromosome,
                       Green |-> GreenChromosome, raised |-> "none"],
                      chromosome_candidates, chromosome_type, last.closeness)
       IN  /\ detectors' = [detectors EXCEPT ![d].cells = out.cells]
           /\ RedChromosome' = out.Red
           /\ GreenChromosome' = out.Green
           /\ last' = [op |-> "__filter_chromosomes", det |-> d,
                       chromosome_candidates |-> chromosome_candidates,
                       chromosome_type |-> chromosome_type,
                       closeness |-> last.closeness, raised |-> out.raised]
           /\ UNCHANGED detect_calls

NextFilter ==
    /\ last.op = "init"
    /\ \E chromosome_candidates \in SeqsUpTo(Points, MaxCand),
          chromosome_type \in {"red", "green"} :
           FilterCall("d1", chromosome_candidates, chromosome_type)

SpecFilter == InitFilter /\ [][NextFilter]_vars

(***************************************************************************)
(* __unsharp_mask, pixel by pixel.  image and blurred are uint8 values     *)
(* (blurred is the pixel of cv2.GaussianBlur(image, ...)); amount is kept  *)
(* in halves (amount2 = 2 * amount).                                       *)
(***************************************************************************)
\* np.round of n2 / 2: halves go to the even neighbour
RoundHalfEven(n2) ==
    LET f == n2 \div 2
    IN  IF n2 % 2 = 0 THEN f ELSE IF f % 2 = 0 THEN f ELSE f + 1

\* lines 183-186: computed in float64, clamped, rounded, cast to uint8
Sharpened(image, blurred, amount2) ==
    LET twice == (amount2 + 2) * image - amount2 * blurred
    IN  RoundHalfEven(Min2(Max2(twice, 0), 2 * 255))

\* line 189: image - blurred is a uint8 subtraction, so it wraps modulo 256,
\* and np.absolute of a uint8 value is the value itself
LowContrastMask(image, blurred, threshold) ==
    ((image - blurred) % 256) < threshold

UnsharpMask(image, blurred, amount2, threshold) ==
    IF threshold > 0 /\ LowContrastMask(image, blurred, threshold)
    THEN image
    ELSE Sharpened(image, blurred, amount2)

Uint8 == 0..255
Amounts2 == {2, 3, 10}      \* amount 1.0 (the default), 1.5 and 5.0
Thresholds == {0, 100}      \* the default and detect_chromosomes' value

InitUnsharp ==
    /\ detectors = [d \in Instances |-> NewDetector(OtherImage)]
    /\ RedChromosome = 0
    /\ GreenChromosome = 0
    /\ detect_calls = [d \in Instances |-> 0]
    /\ last = [op |-> "init"]

UnsharpCall(image, blurred, amount2, threshold) ==
    /\ last' = [op |-> "__unsharp_mask", image |-> image, blurred |-> blurred,
                amount2 |-> amount2, threshold |-> threshold,
                ret |-> UnsharpMask(image, blurred, amount2, threshold)]
    /\ UNCHANGED <<detectors, RedChromosome, GreenChromosome, detect_calls>>

NextUnsharp ==
    /\ last.op = "init"
    /\ \E image \in Uint8, blurred \in Uint8, amount2 \in Amounts2,
          threshold \in Thresholds :
           UnsharpCall(image, blurred, amount2, threshold)

SpecUnsharp == InitUnsharp /\ [][NextUnsharp]_vars

(***************************************************************************)
(* rgba2rgb.  An array is [shape, px]: its shape and the channel values of *)
(* one of its pixels (empty unless the array has three axes).              *)
(***************************************************************************)
MaxDim == 2     \* rows and columns of an input array

NoImage == [shape |-> <<>>, px |-> <<>>]

\* lines 68-72 for one channel value v, alpha a and background value B:
\* v * (a / 255) + (1 - a / 255) * B, cast to uint8 (truncated)
Blend(v, a, B) == (v * a + (255 - a) * B) \div 255

\* rgba2rgb without its assertion
Rgba2RgbNoAssert(rgba, background) ==
    IF Len(rgba.shape) # 3
    THEN [raised |-> "ValueError", ret |-> NoImage]
    ELSE IF rgba.shape[3] = 3
    THEN [raised |-> "none", ret |-> rgba]
    ELSE IF rgba.shape[3] < 4
    THEN [raised |-> "IndexError", ret |-> NoImage]
    ELSE [raised |-> "none",
          ret |-> [shape |-> <<rgba.shape[1], rgba.shape[2], 3>>,
                   px |-> [k \in 1..3 |->
                              Blend(rgba.px[k], rgba.px[4], background[k])]]]

Rgba2Rgb(rgba, background) ==
    IF Len(rgba.shape) # 3
    THEN \* row, col, ch = rgba.shape cannot unpack
         [raised |-> "ValueError", ret |-> NoImage]
    ELSE LET row == rgba.shape[1]
             col == rgba.shape[2]
             ch == rgba.shape[3]
         IN  IF ch = 3 THEN [raised |-> "none", ret |-> rgba]
             ELSE IF ch # 4
             THEN \* assert ch == 4, 'RGBA image has 4 channels.'
                  [raised |-> "AssertionError", ret |-> NoImage]
             ELSE [raised |-> "none",
                   ret |-> [shape |-> <<row, col, 3>>,
                            px |-> [k \in 1..3 |->
                                       Blend(rgba.px[k], rgba.px[4],
                                             background[k])]]]

PixelValues == {0, 128, 255}
Alphas == {0, 255}      \* the alphas at which the float32 blend is exact
Backgrounds == {<<255, 255, 255>>, <<0, 0, 0>>}

PixelsOf(ch) ==
    IF ch = 4
    THEN {px \in [1..4 -> PixelValues \cup Alphas] : px[4] \in Alphas}
    ELSE [1..ch -> PixelValues]

RgbaInputs ==
    LET Dims == 1..MaxDim
    IN  {[shape |-> <<r, c>>, px |-> <<>>] : r \in Dims, c \in Dims}
        \cup {[shape |-> <<r, c, 3, 1>>, px |-> <<>>] : r \in Dims, c \in Dims}
        \cup UNION { {[shape |-> <<r, c, ch>>, px |-> px] :
                         r \in Dims, c \in Dims, px \in PixelsOf(ch)} :
                     ch \in 1..5 }

InitRgba ==
    /\ detectors = [d \in Instances |-> NewDetector(OtherImage)]
    /\ RedChromosome = 0
    /\ GreenChromosome = 0
    /\ detect_calls = [d \in Instances |-> 0]
    /\ last = [op |-> "init"]

Rgba2RgbCall(rgba, background) ==
    /\ LET out == Rgba2Rgb(rgba, background)
       IN  last' = [op |-> "rgba2rgb", rgba |-> rgba, background |-> background,
                    raised |-> out.raised, ret |-> out.ret]
    /\ UNCHANGED <<detectors, RedChromosome, GreenChromosome, detect_calls>>

NextRgba ==
    /\ last.op = "init"
    /\ \E rgba \in RgbaInputs, background \in Backgrounds :
           Rgba2RgbCall(rgba, background)

SpecRgba == InitRgba /\ [][NextRgba]_vars

(***************************************************************************)
(* Properties.                                                             *)
(***************************************************************************)
Range(seq) == {seq[k] : k \in 1..Len(seq)}

RECURSIVE SumLen(_, _)
\* the sum of the lengths of the chromosome lists of one channel
SumLen(cells, chromosome_type) ==
    IF cells = <<>> THEN 0
    ELSE (IF chromosome_type = "red"
          THEN Len(Head(cells).red_chromosomes)
          ELSE Len(Head(cells).green_chromosomes))
         + SumLen(Tail(cells), chromosome_type)

ListOf(cell, chromosome_type) ==
    IF chromosome_type = "red" THEN cell.red_chromosomes
    ELSE cell.green_chromosomes

\* the candidate lies strictly inside the cell's contour, further than
\* closeness (>= 0, in half pixels) from it
Eligible(cell, candidate, closeness) ==
    /\ CellMask(cell) # {}
    /\ LET distance == Distance(cell, candidate)
       IN  distance.sign = 1 /\ distance.sq > closeness * closeness

\* the first cell of the registry that is eligible for the candidate, or 0
FirstEligible(cells, candidate, closeness) ==
    IF \E j \in 1..Len(cells) : Eligible(cells[j], candidate, closeness)
    THEN CHOOSE j \in 1..Len(cells) :
             /\ Eligible(cells[j], candidate, closeness)
             /\ \A i \in 1..(j - 1) : ~Eligible(cells[i], candidate, closeness)
    ELSE 0

\* the candidates of a list that some cell of the registry is eligible for
AcceptedIndices(cells, candidates, closeness) ==
    {idx \in 1..Len(candidates) :
        FirstEligible(cells, candidates[idx], closeness) # 0}

DetectCompleted == last.op = "detect_chromosomes" /\ last.raised = "none"

\* C1: after every completed detect_chromosomes call, for each channel, every
\* accepted point is in the list of exactly one cell and the lengths of the
\* channel's lists over the registry sum to the number of accepted candidates.
PartitionProperty ==
    DetectCompleted =>
        LET cells == detectors[last.det].cells
            image == detectors[last.det].image
            Holds(chromosome_type, candidates) ==
                LET acc == AcceptedIndices(cells, candidates, Closeness)
                IN  /\ \A idx \in acc :
                           Cardinality({j \in 1..Len(cells) :
                               candidates[idx] \in
                                   Range(ListOf(cells[j], chromosome_type))}) = 1
                    /\ SumLen(cells, chromosome_type) = Cardinality(acc)
        IN  /\ Holds("red", RedCandidates(image))
            /\ Holds("green", GreenCandidates(image))

\* C2: a point is in a cell's list only if its signed distance to the cell's
\* contour is > 0 and > closeness; a candidate on a cell's contour (distance
\* 0) is in no list of that cell, whatever the closeness >= 0.
ContainmentLaw ==
    last.op = "__filter_chromosomes" =>
        \A j \in 1..Len(detectors[last.det].cells) :
            LET cell == detectors[last.det].cells[j]
                listed == Range(cell.red_chromosomes)
                              \cup Range(cell.green_chromosomes)
            IN  /\ \A p \in listed :
                       /\ ~NoContour(cell)
                       /\ Distance(cell, p).sign = 1
                       /\ Distance(cell, p).sq > 0
                       /\ Distance(cell, p).sq > last.closeness * last.closeness
                /\ \A p \in Range(last.chromosome_candidates) :
                       (~NoContour(cell) /\ Distance(cell, p).sign = 0)
                           => p \notin listed

\* a pass with closeness 0 over a candidate that lies on a cell's contour, in
\* which some candidate was accepted
ContainmentWitness ==
    /\ last.op = "__filter_chromosomes"
    /\ last.closeness = 0
    /\ \E j \in 1..Len(detectors[last.det].cells) :
           /\ ~NoContour(detectors[last.det].cells[j])
           /\ \E p \in Range(last.chromosome_candidates) :
                  Distance(detectors[last.det].cells[j], p).sign = 0
    /\ RedChromosome + GreenChromosome > 0

\* the list of cell j after a pass: what it held, then the candidates whose
\* first eligible cell is j, in the order of the candidate list
ExpectedList(cells, j, candidates, chromosome_type, closeness) ==
    ListOf(cells[j], chromosome_type)
        \o SelectSeq(candidates,
                     LAMBDA p : FirstEligible(cells, p, closeness) = j)

CountersMatchLists ==
    DetectCompleted =>
        /\ RedChromosome = SumLen(detectors[last.det].cells, "red")
        /\ GreenChromosome = SumLen(detectors[last.det].cells, "green")

FindCellsEnded == last.op = "find_cells"

\* what the oracle returned to the find_cells call that ended last
LastPrediction == Predict(detectors[last.det].image, last.confidence)

\* C5: after any find_cells call the registry holds one Cell per instance of
\* this call's oracle output, in its order, each with empty chromosome lists.
RegistryRebuilt ==
    FindCellsEnded =>
        LET cells == detectors[last.det].cells
        IN  /\ Len(cells) = Len(LastPrediction.cls)
            /\ \A k \in 1..Len(cells) :
                   /\ cells[k].cell_type = CellType(LastPrediction.cls[k])
                   /\ cells[k].red_chromosomes = <<>>
                   /\ cells[k].green_chromosomes = <<>>

\* C6: find_cells on an oracle output without detections raises nothing,
\* leaves the registry empty and returns (0, 0).
NoDetectionsNoError ==
    (FindCellsEnded /\ Len(LastPrediction.cls) = 0) =>
        /\ last.raised = "none"
        /\ detectors[last.det].cells = <<>>
        /\ last.ret = <<0, 0>>

\* C7: for an image of any height H and width W, find_cells gives every
\* instance's mask H rows and W columns and builds its Cell.
MasksMatchImage ==
    (FindCellsEnded /\ Len(LastPrediction.cls) > 0) =>
        LET cells == detectors[last.det].cells
            shape == detectors[last.det].image.shape
        IN  /\ last.raised = "none"
            /\ Len(cells) = Len(LastPrediction.cls)
            /\ \A k \in 1..Len(cells) :
                   /\ cells[k].masked_area.rows = shape[1]
                   /\ cells[k].masked_area.cols = shape[2]

\* C8: find_cells returns (explodedCount, wholeCount): the numbers of
\* EXPLODED and of WHOLE cells of the rebuilt registry, which add up to its
\* length.
CountsMatchRegistry ==
    (FindCellsEnded /\ last.raised = "none") =>
        LET cells == detectors[last.det].cells
            OfType(t) == {k \in 1..Len(cells) : cells[k].cell_type = t}
        IN  /\ last.ret[1] = Cardinality(OfType(EXPLODED))
            /\ last.ret[2] = Cardinality(OfType(WHOLE))
            /\ last.ret[1] + last.ret[2] = Len(cells)

\* a find_cells call that returned one exploded and one whole cell
CountsWitness ==
    /\ FindCellsEnded
    /\ last.raised = "none"
    /\ last.ret = <<1, 1>>
    /\ Len(detectors[last.det].cells) = 2

\* C9: the output of __unsharp_mask is in 0..255; with threshold > 0 it is the
\* original pixel where |image - blur| < threshold and the sharpened value
\* round(clamp((amount + 1) * image - amount * blur, 0, 255)) elsewhere; with
\* threshold = 0 it is the sharpened value everywhere.
UnsharpMaskLaw ==
    last.op = "__unsharp_mask" =>
        LET diff == last.image - last.blurred
            abs == IF diff < 0 THEN 0 - diff ELSE diff
            twice == (last.amount2 + 2) * last.image
                         - last.amount2 * last.blurred
            clamped == IF twice < 0 THEN 0
                       ELSE IF twice > 510 THEN 510 ELSE twice
        IN  /\ last.ret \in 0..255
            /\ IF last.threshold > 0 /\ abs < last.threshold
               THEN last.ret = last.image
               ELSE last.ret = RoundHalfEven(clamped)

Malformed(rgba) == Len(rgba.shape) # 3 \/ rgba.shape[3] \notin {3, 4}

\* what rgba2rgb does with the well-formed inputs: three channels are
\* returned as they are, four channels give three
WellFormedConverted ==
    /\ (Len(last.rgba.shape) = 3 /\ last.rgba.shape[3] = 3) =>
           (last.raised = "none" /\ last.ret = last.rgba)
    /\ (Len(last.rgba.shape) = 3 /\ last.rgba.shape[3] = 4) =>
           /\ last.raised = "none"
           /\ last.ret.shape = <<last.rgba.shape[1], last.rgba.shape[2], 3>>
           /\ Len(last.ret.px) = 3

\* C10 as stated: every input that is not rows x cols x 3 or rows x cols x 4
\* fails with the assertion error and returns no image; a 3-channel input is
\* returned unchanged and a 4-channel input gives a 3-channel image.
RgbaRejectsWithAssertion ==
    last.op = "rgba2rgb" =>
        /\ Malformed(last.rgba) =>
               (last.raised = "AssertionError" /\ last.ret = NoImage)
        /\ WellFormedConverted

\* C10, amended: a three-axis input whose channel count is neither 3 nor 4
\* fails with the assertion error, an input with another number of axes fails
\* with the ValueError of the shape unpacking; neither returns an image; a
\* 3-channel input is returned unchanged, a 4-channel input gives 3 channels.
RgbaRejectsMalformed ==
    last.op = "rgba2rgb" =>
        /\ (Len(last.rgba.shape) = 3 /\ last.rgba.shape[3] \notin {3, 4}) =>
               (last.raised = "AssertionError" /\ last.ret = NoImage)
        /\ Len(last.rgba.shape) # 3 =>
               (last.raised = "ValueError" /\ last.ret = NoImage)
        /\ WellFormedConverted

\* a call on a two-axis array, which failed without the assertion error
RgbaWitness ==
    /\ last.op = "rgba2rgb"
    /\ Len(last.rgba.shape) = 2
    /\ last.raised = "ValueError"
    /\ last.ret = NoImage

====
